---- MODULE Spec2Model ----
(***************************************************************************)
(* Cobra Wars: the two-reptile arena game of matchcontroller.py,           *)
(* reptile.py and vitalityorb.py, modelled as a state machine.             *)
(*                                                                         *)
(* One frame of the game loop is: the pending input events are handled     *)
(* one by one (manage_interactions), then advance_game runs when a battle  *)
(* is in play, then display registers the buttons of the current screen.   *)
(* An event is one action; a frame's advance_game + display is one action  *)
(* (Tick, or IdleFrame when no battle is in play).                         *)
(***************************************************************************)
EXTENDS Integers, Sequences, FiniteSets, TLC

(***************************************************************************)
(* Bounds of the model.                                                    *)
(***************************************************************************)
\* grid columns: DISPLAY_WIDTH // REPTILE_DIMENSION (60 in the source)
GridW == 6
\* grid rows: DISPLAY_HEIGHT // REPTILE_DIMENSION (45 in the source)
GridH == 2
\* longest text typed into the round-count field
MaxText == 1
\* input events and clock steps that change the state, per run
MaxEnv == 3
\* during a battle the environment (input events, clock) is active only
\* in the first InputTicks ticks after the reptiles were created
InputTicks == 2
\* battles of a session and body lengths that are explored
MaxBattles == 2
MaxLen == 3
\* ticks of one battle that are explored
MaxTicks == 20

(***************************************************************************)
(* Program constants.                                                      *)
(***************************************************************************)
ORB_RESPAWN_TIME == 20
SpawnOffset == 5
StartVitality == 100
MaxVitality == 100
EdgePenalty == 5
ClashPenalty == 5
OrbBoost == 30
FoodTally == 5

MOVE_RIGHT == [x |-> 1, y |-> 0]
MOVE_LEFT == [x |-> -1, y |-> 0]
MOVE_UP == [x |-> 0, y |-> -1]
MOVE_DOWN == [x |-> 0, y |-> 1]
Directions == {MOVE_RIGHT, MOVE_LEFT, MOVE_UP, MOVE_DOWN}
\* no move made yet (history only)
NoDir == [x |-> 0, y |-> 0]
Opposite(d) == [x |-> 0 - d.x, y |-> 0 - d.y]

Cells == [x : 0 .. GridW - 1, y : 0 .. GridH - 1]
NoCell == [x |-> -1, y |-> -1]

Min(a, b) == IF a <= b THEN a ELSE b

\* random.randint(lo, hi), explored on its two extreme values
RandInt(lo, hi) == {lo, hi}

\* MatchController.generate_nourishment / VitalityOrb.regenerate
RandCells == [x : RandInt(0, GridW - 1), y : RandInt(0, GridH - 1)]
generate_nourishment == RandCells
regenerate == RandCells

(***************************************************************************)
(* reptile.py                                                              *)
(***************************************************************************)
Reptile(start_position, move_direction) ==
  [segments |-> <<start_position>>, move_direction |-> move_direction,
   vitality |-> StartVitality, tally |-> 0]

\* new_head without the modulo of lines 79-80: the faulty variant that C10
\* must tell from new_head
new_head_unwrapped(r) ==
  [x |-> r.segments[1].x + r.move_direction.x,
   y |-> r.segments[1].y + r.move_direction.y]

new_head(r) ==
  [x |-> (r.segments[1].x + r.move_direction.x) % GridW,
   y |-> (r.segments[1].y + r.move_direction.y) % GridH]

\* move without the pop() of line 84: the faulty variant that C9 must tell
\* from move
move_without_pop(r) ==
  [r EXCEPT !.segments = <<new_head(r)>> \o r.segments]

move(r) ==
  [r EXCEPT !.segments = SubSeq(<<new_head(r)>> \o r.segments, 1, Len(r.segments))]

\* expand that leaves a body of one segment alone: the faulty variant that
\* C21 must tell from expand
expand_unless_single(r) ==
  IF Len(r.segments) = 1 THEN r
  ELSE [r EXCEPT !.segments = Append(r.segments, r.segments[Len(r.segments)])]

expand(r) ==
  [r EXCEPT !.segments = Append(r.segments, r.segments[Len(r.segments)])]

detect_collision(r, item) ==
  r.segments[1].x = item.x /\ r.segments[1].y = item.y

\* detect_self_impact with the head searched in the whole body: the faulty
\* variant that C18 must tell from detect_self_impact
detect_self_impact_whole(r) ==
  \E i \in 1 .. Len(r.segments) : r.segments[i] = r.segments[1]

detect_self_impact(r) ==
  \E i \in 2 .. Len(r.segments) : r.segments[i] = r.segments[1]

\* segments[0] in other.segments
HeadIn(r, other) ==
  \E i \in 1 .. Len(other.segments) : other.segments[i] = r.segments[1]

(***************************************************************************)
(* matchcontroller.py: state                                               *)
(***************************************************************************)
VARIABLES isActive, isInPlay, isPaused, isOver, combatant1, combatant2,
          restorativeOrbs, lastOrbRegen, nourishment, controls, totalRounds,
          currentBattle, isAcceptingInput, enteredText, battleScores,
          clock, age, lastDir, tickLog, lastKey, envLeft

vars == <<isActive, isInPlay, isPaused, isOver, combatant1, combatant2,
          restorativeOrbs, lastOrbRegen, nourishment, controls, totalRounds,
          currentBattle, isAcceptingInput, enteredText, battleScores,
          clock, age, lastDir, tickLog, lastKey, envLeft>>

\* the program's own state
prog == <<isActive, isInPlay, isPaused, isOver, combatant1, combatant2,
          restorativeOrbs, lastOrbRegen, nourishment, controls, totalRounds,
          currentBattle, isAcceptingInput, enteredText, battleScores, clock>>

flagVars == <<isActive, isInPlay, isPaused, isOver, isAcceptingInput>>
arenaVars == <<combatant1, combatant2, restorativeOrbs, lastOrbRegen, nourishment>>
sessionVars == <<totalRounds, currentBattle, battleScores>>
historyVars == <<age, lastDir, tickLog>>

Spawn1 == [x |-> SpawnOffset, y |-> GridH \div 2]
Spawn2 == [x |-> GridW - SpawnOffset, y |-> GridH \div 2]
NewCombatant1 == Reptile(Spawn1, MOVE_RIGHT)
NewCombatant2 == Reptile(Spawn2, MOVE_LEFT)

\* History only: age counts the ticks of the reptiles, lastDir holds the
\* directions of their last move, lastKey the key that lines 204-222
\* handled last in this frame, and tickLog what the last tick did (ran: a
\* tick has run in this session): the time it ran at (now), lastOrbRegen,
\* restorativeOrbs, currentBattle and the lengths of the score lists when
\* it began (regen0, orbs0, battle0, hist0), the heads and vitalities right
\* after the edge checks (h, mv) and what these took (edge), whether the
\* battle ended and another one began (ended, more), the arena right after
\* the battle-end sequence of lines 259-265 (v, t, l: vitality, tally and
\* length; orbs; food), the orbs each reptile took in lines 268-274, what
\* the clash checks took (clash1, clash2) and the food cell that line 287
\* compared combatant2 with (food2).
NoLog ==
  [ran |-> FALSE, ended |-> FALSE, more |-> FALSE, now |-> 0, regen0 |-> 0,
   orbs0 |-> <<>>, battle0 |-> 0, hist0 |-> <<0, 0>>,
   h1 |-> NoCell, h2 |-> NoCell, mv1 |-> 0, mv2 |-> 0,
   edge1 |-> 0, edge2 |-> 0, v1 |-> 0, v2 |-> 0, t1 |-> 0, t2 |-> 0,
   l1 |-> 0, l2 |-> 0, orbs |-> <<>>, food |-> NoCell,
   eaten1 |-> 0, eaten2 |-> 0, clash1 |-> 0, clash2 |-> 0, food2 |-> NoCell]

\* the screen display() shows, which is the phase of the match
Phase ==
  IF ~isActive THEN "TERMINAL"
  ELSE IF isOver THEN "SESSION_OVER"
  ELSE IF isInPlay THEN (IF isPaused THEN "PAUSED" ELSE "IN_BATTLE")
  ELSE IF isAcceptingInput THEN "CONFIGURING_ROUNDS"
  ELSE "MENU"

Init ==
  /\ isActive = TRUE
  /\ isInPlay = FALSE
  /\ isPaused = FALSE
  /\ isOver = FALSE
  /\ combatant1 = NewCombatant1
  /\ combatant2 = NewCombatant2
  /\ restorativeOrbs = <<>>
  /\ clock = 0
  /\ lastOrbRegen = 0
  /\ nourishment \in generate_nourishment
  /\ controls = {}
  /\ totalRounds = 0
  /\ currentBattle = 1
  /\ isAcceptingInput = FALSE
  /\ enteredText = <<>>
  /\ battleScores = [c1 |-> <<>>, c2 |-> <<>>]
  /\ age = 0
  /\ lastDir = <<NoDir, NoDir>>
  /\ tickLog = NoLog
  /\ lastKey = "none"
  /\ envLeft = MaxEnv

(***************************************************************************)
(* Input events: one pass of the loop body of manage_interactions          *)
(***************************************************************************)
\* During a battle the environment acts only while the reptiles are younger
\* than InputTicks ticks.  A key press or a mouse click that changes the
\* program's state uses up one unit of MaxEnv, as every step of the clock
\* does; the clicks made before a battle is in play are not counted.
InBattleOrAfter == isInPlay \/ isOver

EnvActive == isActive /\ (isInPlay => isOver \/ age < InputTicks)

SpendKey == envLeft' = IF prog' # prog THEN envLeft - 1 ELSE envLeft

SpendClick ==
  envLeft' = IF InBattleOrAfter /\ prog' # prog THEN envLeft - 1 ELSE envLeft

Buttons == {"confirm", "initiate", "replay", "end"}
DigitKeys == {"0", "2", "sup2"}
\* the keys that steer combatant1 and combatant2
Keys1 == {"w", "a", "s", "d"}
Keys2 == {"UP", "LEFT", "DOWN", "RIGHT"}
Keys == DigitKeys \cup {"BACKSPACE"} \cup Keys1 \cup Keys2

\* str.isdigit(): true of the decimal digits and of characters such as the
\* superscript two, which int() does not accept
isdigit(ch) == ch \in DigitKeys
\* the characters int() accepts, and their values
IsDecimal(ch) == ch \in {"0", "2"}
DigitValue(ch) == IF ch = "0" THEN 0 ELSE 2

RECURSIVE DecimalValue(_)
DecimalValue(text) ==
  IF text = <<>> THEN 0
  ELSE 10 * DecimalValue(SubSeq(text, 1, Len(text) - 1)) + DigitValue(text[Len(text)])

\* int(text): ok = FALSE stands for ValueError
ParseInt(text) ==
  IF text # <<>> /\ \A i \in 1 .. Len(text) : IsDecimal(text[i])
  THEN [ok |-> TRUE, value |-> DecimalValue(text)]
  ELSE [ok |-> FALSE, value |-> 0]

\* the direction a key asks for, and the direction that refuses it
KeyDirection(key) ==
  IF key \in {"w", "UP"} THEN MOVE_UP
  ELSE IF key \in {"a", "LEFT"} THEN MOVE_LEFT
  ELSE IF key \in {"s", "DOWN"} THEN MOVE_DOWN
  ELSE MOVE_RIGHT

KeyBlocker(key) ==
  IF key \in {"w", "UP"} THEN MOVE_DOWN
  ELSE IF key \in {"a", "LEFT"} THEN MOVE_RIGHT
  ELSE IF key \in {"s", "DOWN"} THEN MOVE_UP
  ELSE MOVE_LEFT

\* Steer without the comparison against the opposite direction: the faulty
\* variant that C8 must tell from Steer
Steer_unguarded(r, key, mine) ==
  IF key \in mine
  THEN [r EXCEPT !.move_direction = KeyDirection(key)]
  ELSE r

\* lines 206-213 and 215-222: one reptile's branch of the key handler
Steer(r, key, mine) ==
  IF key \in mine /\ r.move_direction # KeyBlocker(key)
  THEN [r EXCEPT !.move_direction = KeyDirection(key)]
  ELSE r

QuitEvent ==
  /\ EnvActive
  /\ InBattleOrAfter => envLeft > 0
  /\ isActive' = FALSE
  /\ UNCHANGED <<isInPlay, isPaused, isOver, isAcceptingInput, arenaVars,
                 sessionVars, controls, enteredText, clock, historyVars, lastKey>>
  /\ SpendClick

\* lines 198-222: the KEYDOWN branch, for one key
KeyPress(key) ==
  /\ EnvActive
  /\ envLeft > 0
  /\ IF isAcceptingInput
     THEN /\ isdigit(key) => Len(enteredText) < MaxText
          /\ enteredText' =
               IF key = "BACKSPACE"
               THEN SubSeq(enteredText, 1, Len(enteredText) - 1)
               ELSE IF isdigit(key)
               THEN Append(enteredText, key)
               ELSE enteredText
          /\ UNCHANGED <<combatant1, combatant2>>
     ELSE /\ IF isInPlay /\ ~isPaused
             THEN /\ combatant1' = Steer(combatant1, key, Keys1)
                  /\ combatant2' = Steer(combatant2, key, Keys2)
             ELSE UNCHANGED <<combatant1, combatant2>>
          /\ UNCHANGED enteredText
  /\ lastKey' = (IF ~isAcceptingInput /\ isInPlay /\ ~isPaused THEN key ELSE "none")
  /\ UNCHANGED <<flagVars, restorativeOrbs, lastOrbRegen, nourishment,
                 sessionVars, controls, clock, historyVars>>
  /\ SpendKey

KeyDown == \E key \in Keys : KeyPress(key)

\* initialize_next_battle: the arena after it, given the food it draws
initialize_next_battle(food) ==
  [c1 |-> [NewCombatant1 EXCEPT !.vitality = 100],
   c2 |-> [NewCombatant2 EXCEPT !.vitality = 100],
   food |-> food, orbs |-> <<>>, regen |-> clock]

\* restart_battle: a full session restart, back to the round-count prompt
restart_battle ==
  /\ \E food \in generate_nourishment :
       \E a \in {initialize_next_battle(food)} :
         /\ combatant1' = a.c1
         /\ combatant2' = a.c2
         /\ nourishment' = a.food
         /\ restorativeOrbs' = a.orbs
         /\ lastOrbRegen' = a.regen
  /\ isOver' = FALSE
  /\ isInPlay' = FALSE
  /\ isAcceptingInput' = TRUE
  /\ currentBattle' = 1
  /\ battleScores' = [c1 |-> <<>>, c2 |-> <<>>]
  /\ age' = 0
  /\ lastDir' = <<NoDir, NoDir>>
  /\ tickLog' = NoLog
  /\ UNCHANGED <<isActive, isPaused, totalRounds, enteredText>>

\* the confirm button: lines 170-181
Confirm ==
  \E n \in {ParseInt(enteredText)} :
    /\ enteredText' = <<>>
    /\ IF n.ok
       THEN /\ totalRounds' = n.value
            /\ isAcceptingInput' = FALSE
            /\ isInPlay' = TRUE
       ELSE UNCHANGED <<totalRounds, isAcceptingInput, isInPlay>>
    /\ UNCHANGED <<isActive, isPaused, isOver, arenaVars, currentBattle,
                   battleScores, historyVars>>

\* the initiate button: lines 182-184
Initiate ==
  /\ isAcceptingInput' = TRUE
  /\ isInPlay' = FALSE
  /\ UNCHANGED <<isActive, isPaused, isOver, arenaVars, sessionVars,
                 enteredText, historyVars>>

\* the end button: lines 189-190 and 195-196
End ==
  /\ isActive' = FALSE
  /\ UNCHANGED <<isInPlay, isPaused, isOver, isAcceptingInput, arenaVars,
                 sessionVars, enteredText, historyVars>>

Ignored ==
  UNCHANGED <<flagVars, arenaVars, sessionVars, enteredText, historyVars>>

\* lines 168-196: a mouse click inside the rectangle of button b
Click(b) ==
  /\ EnvActive
  /\ InBattleOrAfter => envLeft > 0
  /\ IF isAcceptingInput
     THEN IF b = "confirm" /\ b \in controls THEN Confirm ELSE Ignored
     ELSE IF b = "initiate" /\ b \in controls THEN Initiate
     ELSE IF isOver
     THEN IF b = "replay" /\ b \in controls THEN restart_battle
          ELSE IF b = "end" /\ b \in controls THEN End
          ELSE Ignored
     ELSE IF ~isInPlay /\ ~isAcceptingInput /\ b = "end" /\ b \in controls
     THEN End
     ELSE Ignored
  /\ UNCHANGED <<controls, clock, lastKey>>
  /\ SpendClick

MouseButtonDown == \E b \in Buttons : Click(b)

\* time.time() moves on, by one respawn interval
TimePasses ==
  /\ EnvActive
  /\ envLeft > 0
  /\ clock' = clock + ORB_RESPAWN_TIME
  /\ envLeft' = envLeft - 1
  /\ UNCHANGED <<flagVars, arenaVars, sessionVars, controls, enteredText,
                 historyVars, lastKey>>

(***************************************************************************)
(* display: the buttons it registers in controls                           *)
(***************************************************************************)
\* the battle-over screen offers the replay and the end button
display_battle_over_screen(ctrl) == ctrl \cup {"replay", "end"}

display(ctrl, over, inPlay, accepting) ==
  IF ~over
  THEN IF inPlay THEN ctrl
       ELSE IF accepting THEN ctrl \cup {"confirm"}
       ELSE ctrl \cup {"initiate", "replay", "end"}
  ELSE display_battle_over_screen(ctrl)

\* execute: advance_game runs in a frame of a battle in play
InPlay == isInPlay /\ ~isPaused /\ ~isOver

\* a frame of the loop in which advance_game does not run
IdleFrame ==
  /\ isActive
  /\ ~InPlay
  /\ controls' = display(controls, isOver, isInPlay, isAcceptingInput)
  /\ lastKey' = "none"
  /\ UNCHANGED <<flagVars, arenaVars, sessionVars, enteredText, clock,
                 historyVars, envLeft>>

(***************************************************************************)
(* advance_game, step by step                                              *)
(***************************************************************************)
\* OrbDue with > in place of >=: the faulty variant that C14 must tell from
\* OrbDue
OrbDue_late == clock - lastOrbRegen > ORB_RESPAWN_TIME

\* replenish_vitality_orbs: whether an orb is due
OrbDue == clock - lastOrbRegen >= ORB_RESPAWN_TIME

\* lines 240-247 (combatant1) and 249-256 (combatant2)
EdgeLoss(v, limit) ==
  IF v <= 0 THEN EdgePenalty ELSE IF v >= limit THEN EdgePenalty ELSE 0

\* the edge checks with both axes in one if/elif chain: the faulty variant
\* that C11 must tell from EdgeStep
EdgeStep_one_chain(r) ==
  [r EXCEPT !.vitality =
     @ - (IF EdgeLoss(r.segments[1].x, GridW) > 0 THEN EdgePenalty
          ELSE EdgeLoss(r.segments[1].y, GridH))]

EdgeStep(r) ==
  [r EXCEPT !.vitality = @ - EdgeLoss(r.segments[1].x, GridW)
                           - EdgeLoss(r.segments[1].y, GridH)]

\* BattleEnds with an exclusive or: the faulty variant that C17 must tell
\* from BattleEnds
BattleEnds_either_not_both(a, b) == (a.vitality <= 0) # (b.vitality <= 0)

\* line 259
BattleEnds(a, b) == a.vitality <= 0 \/ b.vitality <= 0

\* archive_scores
archive_scores(scores, a, b) ==
  [c1 |-> Append(scores.c1, a.tally), c2 |-> Append(scores.c2, b.tally)]

\* Restore without the min(): the faulty variant that C13 must tell from
\* Restore
Restore_unclamped(r) == [r EXCEPT !.vitality = @ + OrbBoost]

\* line 271 / 274
Restore(r) == [r EXCEPT !.vitality = Min(@ + OrbBoost, MaxVitality)]

\* lines 268-274: the loop over a copy of restorativeOrbs, from its i-th orb
RECURSIVE OrbScan(_, _, _)
OrbScan(copy, i, acc) ==
  IF i > Len(copy) THEN acc
  ELSE IF detect_collision(acc.c1, copy[i])
  THEN OrbScan(copy, i + 1, [acc EXCEPT !.c1 = Restore(@), !.eaten1 = @ + 1])
  ELSE IF detect_collision(acc.c2, copy[i])
  THEN OrbScan(copy, i + 1, [acc EXCEPT !.c2 = Restore(@), !.eaten2 = @ + 1])
  ELSE OrbScan(copy, i + 1, [acc EXCEPT !.orbs = Append(@, copy[i])])

OrbStep(orbs, a, b) ==
  OrbScan(orbs, 1, [orbs |-> <<>>, c1 |-> a, c2 |-> b, eaten1 |-> 0, eaten2 |-> 0])

\* the clash checks with the second one made on the result of the first
\* only the check of line 277: the faulty variant that C23 must tell from
\* ClashStep
ClashStep_one_sided(a, b) ==
  [c1 |-> IF HeadIn(a, b) THEN [a EXCEPT !.vitality = @ - ClashPenalty] ELSE a,
   c2 |-> b]

\* as an elif: the faulty variant that C16 must tell from ClashStep
ClashStep_elif(a, b) ==
  [c1 |-> IF HeadIn(a, b) THEN [a EXCEPT !.vitality = @ - ClashPenalty] ELSE a,
   c2 |-> IF ~HeadIn(a, b) /\ HeadIn(b, a)
          THEN [b EXCEPT !.vitality = @ - ClashPenalty] ELSE b]

\* lines 277-280
ClashStep(a, b) ==
  [c1 |-> IF HeadIn(a, b) THEN [a EXCEPT !.vitality = @ - ClashPenalty] ELSE a,
   c2 |-> IF HeadIn(b, a) THEN [b EXCEPT !.vitality = @ - ClashPenalty] ELSE b]

\* Feed without the call of expand: the faulty variant that C12 must tell
\* from Feed
Feed_without_expand(r) == [r EXCEPT !.tally = @ + FoodTally]

\* lines 284-285 / 289-290
Feed(r) == expand([r EXCEPT !.tally = @ + FoodTally])

\* lines 235-256: the orbs and the reptiles after the move and the edge check
Advance(orb) ==
  [c1 |-> EdgeStep(move(combatant1)),
   c2 |-> EdgeStep(move(combatant2)),
   food |-> nourishment,
   orbs |-> IF OrbDue THEN Append(restorativeOrbs, orb) ELSE restorativeOrbs,
   regen |-> IF OrbDue THEN clock ELSE lastOrbRegen]

\* one frame of the loop during a battle: advance_game, then display
Frame ==
  /\ isActive /\ InPlay
  /\ \E orb \in (IF OrbDue THEN regenerate ELSE {NoCell}) :
     \E m \in {Advance(orb)} :
     \E ends \in {BattleEnds(m.c1, m.c2)} :
     \E more \in {ends /\ currentBattle < totalRounds} :
     \E food0 \in (IF more THEN generate_nourishment ELSE {NoCell}) :
     \E e \in {IF more THEN initialize_next_battle(food0) ELSE m} :
     \E o \in {OrbStep(e.orbs, e.c1, e.c2)} :
     \E k \in {ClashStep(o.c1, o.c2)} :
     \E eats1 \in {detect_collision(k.c1, e.food)} :
     \E foodA \in (IF eats1 THEN generate_nourishment ELSE {e.food}) :
     \E eats2 \in {detect_collision(k.c2, foodA)} :
     \E foodB \in (IF eats2 THEN generate_nourishment ELSE {foodA}) :
       /\ combatant1' = (IF eats1 THEN Feed(k.c1) ELSE k.c1)
       /\ combatant2' = (IF eats2 THEN Feed(k.c2) ELSE k.c2)
       /\ nourishment' = foodB
       /\ restorativeOrbs' = o.orbs
       /\ lastOrbRegen' = e.regen
       /\ battleScores' = (IF ends THEN archive_scores(battleScores, m.c1, m.c2)
                                   ELSE battleScores)
       /\ currentBattle' = (IF more THEN currentBattle + 1 ELSE currentBattle)
       /\ isOver' = (ends /\ ~more)
       /\ age' = (IF more THEN 0 ELSE age + 1)
       /\ lastDir' = (IF more THEN <<NoDir, NoDir>>
                              ELSE <<combatant1.move_direction, combatant2.move_direction>>)
       /\ tickLog' = [ran |-> TRUE, ended |-> ends, more |-> more,
                      now |-> clock, regen0 |-> lastOrbRegen,
                      orbs0 |-> restorativeOrbs,
                      battle0 |-> currentBattle,
                      hist0 |-> <<Len(battleScores.c1), Len(battleScores.c2)>>,
                      h1 |-> m.c1.segments[1], h2 |-> m.c2.segments[1],
                      mv1 |-> m.c1.vitality, mv2 |-> m.c2.vitality,
                      edge1 |-> combatant1.vitality - m.c1.vitality,
                      edge2 |-> combatant2.vitality - m.c2.vitality,
                      v1 |-> e.c1.vitality, v2 |-> e.c2.vitality,
                      t1 |-> e.c1.tally, t2 |-> e.c2.tally,
                      l1 |-> Len(e.c1.segments), l2 |-> Len(e.c2.segments),
                      orbs |-> e.orbs, food |-> e.food,
                      eaten1 |-> o.eaten1, eaten2 |-> o.eaten2,
                      clash1 |-> o.c1.vitality - k.c1.vitality,
                      clash2 |-> o.c2.vitality - k.c2.vitality,
                      food2 |-> foodA]
       /\ controls' = display(controls, ends /\ ~more, isInPlay, isAcceptingInput)
  /\ lastKey' = "none"
  /\ UNCHANGED <<isActive, isInPlay, isPaused, isAcceptingInput, totalRounds,
                 enteredText, clock, envLeft>>

\* the frames of a battle that are explored
Tick ==
  /\ currentBattle <= MaxBattles
  /\ Len(combatant1.segments) <= MaxLen /\ Len(combatant2.segments) <= MaxLen
  /\ age < MaxTicks
  /\ Frame

Next ==
  \/ QuitEvent
  \/ KeyDown
  \/ MouseButtonDown
  \/ TimePasses
  \/ IdleFrame
  \/ Tick

Spec == Init /\ [][Next]_vars

(***************************************************************************)
(* A session left to itself: the round count has been confirmed, no key is *)
(* pressed, no button clicked and the clock stands still (so no orb is     *)
(* ever made); the loop runs one frame after the other.                    *)
(***************************************************************************)
AutoRounds == {1, 2}

\* the state right after the confirm button has set the round count
AutoInit ==
  /\ isActive = TRUE
  /\ isInPlay = TRUE
  /\ isPaused = FALSE
  /\ isOver = FALSE
  /\ combatant1 = NewCombatant1
  /\ combatant2 = NewCombatant2
  /\ restorativeOrbs = <<>>
  /\ clock = 0
  /\ lastOrbRegen = 0
  /\ nourishment \in generate_nourishment
  /\ controls = {"confirm", "initiate", "replay", "end"}
  /\ totalRounds \in AutoRounds
  /\ currentBattle = 1
  /\ isAcceptingInput = FALSE
  /\ enteredText = <<>>
  /\ battleScores = [c1 |-> <<>>, c2 |-> <<>>]
  /\ age = 0
  /\ lastDir = <<NoDir, NoDir>>
  /\ tickLog = NoLog
  /\ lastKey = "none"
  /\ envLeft = 0

AutoNext == Frame

\* execute runs advance_game in every frame of a battle in play
AutoSpec == AutoInit /\ [][AutoNext]_vars /\ WF_vars(Frame)

(***************************************************************************)
(* Claims                                                                  *)
(***************************************************************************)
Combatants == {combatant1, combatant2}

\* C1: in every reachable state the vitality of each reptile is an integer
\* in [0,100]: no edge penalty, clash penalty or orb leaves it below 0 or
\* above 100.
C1_VitalityInRange ==
  \A r \in Combatants : r.vitality \in 0 .. MaxVitality

\* C2: in a session of totalRounds >= 1 battles, a tick that ends a battle
\* before the last one leaves the match in IN_BATTLE with currentBattle one
\* higher, both reptiles reset (vitality 100, tally 0, one segment on the
\* spawn cell, spawn direction) and no orbs; the tick that ends the last
\* battle leaves the match in SESSION_OVER.
C2_RoundProgression ==
  [][(Tick /\ tickLog'.ended /\ totalRounds >= 1) =>
       IF currentBattle < totalRounds
       THEN /\ Phase' = "IN_BATTLE"
            /\ currentBattle' = currentBattle + 1
            /\ combatant1' = NewCombatant1
            /\ combatant2' = NewCombatant2
            /\ restorativeOrbs' = <<>>
       ELSE Phase' = "SESSION_OVER"]_vars

\* the round count typed so far is no positive integer
InvalidCount(text) == ~ParseInt(text).ok \/ ParseInt(text).value <= 0

\* C3: in CONFIGURING_ROUNDS, a click on confirm while the text typed is
\* empty, not a number or a number <= 0 leaves the phase and totalRounds
\* as they are and clears the text.
C3_InvalidCountDiscarded ==
  [][(Phase = "CONFIGURING_ROUNDS" /\ "confirm" \in controls
      /\ Click("confirm") /\ InvalidCount(enteredText)) =>
       /\ Phase' = "CONFIGURING_ROUNDS"
       /\ totalRounds' = totalRounds
       /\ enteredText' = <<>>]_vars

\* C4: a click on confirm while a positive round count n is typed, whatever
\* the state was before the round count was asked for, leaves the match in
\* IN_BATTLE with totalRounds = n, currentBattle = 1, both reptiles as new,
\* a food cell on the grid and no orbs.
C4_ConfirmStartsFreshSession ==
  [][(isAcceptingInput /\ "confirm" \in controls
      /\ Click("confirm") /\ ~InvalidCount(enteredText)) =>
       /\ Phase' = "IN_BATTLE"
       /\ totalRounds' = ParseInt(enteredText).value
       /\ currentBattle' = 1
       /\ combatant1' = NewCombatant1
       /\ combatant2' = NewCombatant2
       /\ nourishment' \in Cells
       /\ restorativeOrbs' = <<>>]_vars

\* C5: in a tick whose edge check brings a vitality to 0 or below, nothing
\* after the battle-end sequence changes a reptile's vitality, tally or
\* length, an orb or the food cell.
C5_BattleEndSkipsInteractions ==
  [][(Tick /\ tickLog'.ended) =>
       /\ combatant1'.vitality = tickLog'.v1
       /\ combatant2'.vitality = tickLog'.v2
       /\ combatant1'.tally = tickLog'.t1
       /\ combatant2'.tally = tickLog'.t2
       /\ Len(combatant1'.segments) = tickLog'.l1
       /\ Len(combatant2'.segments) = tickLog'.l2
       /\ restorativeOrbs' = tickLog'.orbs
       /\ nourishment' = tickLog'.food]_vars

\* C6: in every tick each reptile takes at most one orb, also when several
\* orbs lie on one cell, so that its vitality rises by at most 30.
C6_OneOrbPerTick ==
  [][Tick =>
       /\ tickLog'.eaten1 <= 1
       /\ tickLog'.eaten2 <= 1
       /\ ~tickLog'.ended =>
            /\ combatant1'.vitality - combatant1.vitality <= OrbBoost
            /\ combatant2'.vitality - combatant2.vitality <= OrbBoost]_vars

\* C7: the direction a reptile moves in is never the opposite of the
\* direction of its previous move, whatever keys were pressed in between.
C7_NoReversalBetweenMoves ==
  [][Tick =>
       /\ lastDir[1] # NoDir => combatant1.move_direction # Opposite(lastDir[1])
       /\ lastDir[2] # NoDir => combatant2.move_direction # Opposite(lastDir[2])]_vars

\* what the reversal guard makes of a request for direction d
Guarded(r, d) == IF d = Opposite(r.move_direction) THEN r.move_direction ELSE d

\* C8: a steering key that asks for the opposite of the reptile's current
\* direction leaves the direction as it is, a key that asks for any other
\* direction sets it, a key of the other reptile changes nothing, and the
\* direction is always one of the four unit vectors.
C8_ReversalGuard ==
  /\ [](\A r \in Combatants : r.move_direction \in Directions)
  /\ [][\A key \in Keys1 \cup Keys2 :
          (lastKey' = key /\ KeyPress(key)) =>
            /\ combatant1'.move_direction =
                 (IF key \in Keys1 THEN Guarded(combatant1, KeyDirection(key))
                                   ELSE combatant1.move_direction)
            /\ combatant2'.move_direction =
                 (IF key \in Keys2 THEN Guarded(combatant2, KeyDirection(key))
                                   ELSE combatant2.move_direction)]_vars

\* a reversal was refused: "a" was pressed and combatant1 still moves right,
\* after "UP" turned combatant2 from left to up
C8_Witness ==
  /\ Phase = "IN_BATTLE"
  /\ lastKey = "a"
  /\ combatant1.move_direction = MOVE_RIGHT
  /\ combatant2.move_direction = MOVE_UP

\* a step that starts a battle with new reptiles
NewBattleStep == currentBattle' # currentBattle \/ (isOver /\ ~isOver')

\* C9: within a battle the number of segments of a reptile never goes down
\* and is at least 1; move keeps it, expand adds exactly one, so a tick adds
\* one if the reptile ate and nothing otherwise.
C9_LengthNeverDecreases ==
  /\ [](/\ \A r \in Combatants :
             /\ Len(r.segments) >= 1
             /\ Len(move(r).segments) = Len(r.segments)
             /\ Len(expand(r).segments) = Len(r.segments) + 1
        /\ tickLog.ran =>
             /\ Len(combatant1.segments) = tickLog.l1
                  + (IF combatant1.tally # tickLog.t1 THEN 1 ELSE 0)
             /\ Len(combatant2.segments) = tickLog.l2
                  + (IF combatant2.tally # tickLog.t2 THEN 1 ELSE 0))
  /\ [][~NewBattleStep =>
          /\ Len(combatant1'.segments) >= Len(combatant1.segments)
          /\ Len(combatant2'.segments) >= Len(combatant2.segments)]_vars

\* a reptile that grew to two segments and has moved since
C9_Witness ==
  \E r \in Combatants :
    /\ Len(r.segments) = 2
    /\ r.segments[1] # r.segments[2]
    /\ r.tally = FoodTally

\* v + 1 or v - 1 brought back into 0 .. n - 1
Wrap(v, n) == IF v < 0 THEN v + n ELSE IF v >= n THEN v - n ELSE v

\* C10: for every body and direction, move puts the cell
\* ((head.x + dir.x) mod W, (head.y + dir.y) mod H) in front, shifts the
\* other cells back by one, dropping the last, and keeps the length; every
\* segment of both reptiles is a cell of the grid.
C10_MoveWraps ==
  \A r \in Combatants :
    /\ \A i \in 1 .. Len(r.segments) : r.segments[i] \in Cells
    /\ \A d \in Directions :
         \E m \in {move([r EXCEPT !.move_direction = d])} :
           /\ Len(m.segments) = Len(r.segments)
           /\ m.segments[1] = [x |-> Wrap(r.segments[1].x + d.x, GridW),
                                y |-> Wrap(r.segments[1].y + d.y, GridH)]
           /\ \A i \in 2 .. Len(m.segments) : m.segments[i] = r.segments[i - 1]

\* combatant2, two segments long, has left the grid on the left and come
\* back in on the right
C10_Witness ==
  /\ lastDir[2] = MOVE_LEFT
  /\ Len(combatant2.segments) = 2
  /\ combatant2.segments[1].x = GridW - 1
  /\ combatant2.segments[2].x = 0

\* what a head in column or row v costs: 5 in column 0 or row 0
AxisLoss(v) == IF v = 0 THEN 5 ELSE 0

\* C11: in the edge checks of a tick each reptile loses 5 for each axis on
\* which its head, after the move, is at or beyond an edge, that is 0, 5 or
\* 10; since move wraps, no head is ever in a column >= W or a row >= H, so
\* the loss is 5 for a head in column 0 plus 5 for a head in row 0.
C11_EdgePenalty ==
  /\ \A r \in Combatants :
       /\ move(r).segments[1].x < GridW /\ move(r).segments[1].y < GridH
       /\ r.segments[1].x < GridW /\ r.segments[1].y < GridH
  /\ tickLog.ran =>
       /\ tickLog.edge1 = AxisLoss(tickLog.h1.x) + AxisLoss(tickLog.h1.y)
       /\ tickLog.edge2 = AxisLoss(tickLog.h2.x) + AxisLoss(tickLog.h2.y)

\* the last tick took 10 from combatant1, in the corner, and nothing from
\* combatant2
C11_Witness ==
  /\ tickLog.edge1 = 10
  /\ tickLog.edge2 = 0
  /\ ~tickLog.ended
  /\ tickLog.h1 = [x |-> 0, y |-> 0]
  /\ combatant1.segments[1] = tickLog.h1

\* reptile r has eaten in the last tick: 5 more than tally t, one segment
\* more than l
Fed(r, t, l) == r.tally = t + 5 /\ Len(r.segments) = l + 1

\* the food step of the last tick has left tally t and length l of r alone
NotFed(r, t, l) == r.tally = t /\ Len(r.segments) = l

\* C12 as stated: in a tick that ends no battle, a reptile whose head, after
\* the move, is on the food cell gets tally + 5 and one segment more, and
\* the food is replaced by a cell of the grid; a reptile whose head is not
\* on the food cell keeps its tally and its length.
C12_FoodConsumption ==
  (tickLog.ran /\ ~tickLog.ended) =>
    /\ IF tickLog.h1 = tickLog.food
       THEN Fed(combatant1, tickLog.t1, tickLog.l1) /\ nourishment \in Cells
       ELSE NotFed(combatant1, tickLog.t1, tickLog.l1)
    /\ IF tickLog.h2 = tickLog.food
       THEN Fed(combatant2, tickLog.t2, tickLog.l2) /\ nourishment \in Cells
       ELSE NotFed(combatant2, tickLog.t2, tickLog.l2)

\* C12 as amended: in a tick that ends no battle, combatant1 is compared
\* with the food cell of the start of the tick and combatant2 with the food
\* cell that combatant1's check has left (a new cell if combatant1 ate);
\* the reptile whose head is on the cell it is compared with gets tally + 5
\* and one segment more and the food is replaced by a cell of the grid,
\* the other keeps tally and length and leaves the food where it is.
C12_FoodConsumptionInOrder ==
  (tickLog.ran /\ ~tickLog.ended) =>
    /\ IF tickLog.h1 = tickLog.food
       THEN Fed(combatant1, tickLog.t1, tickLog.l1) /\ tickLog.food2 \in Cells
       ELSE /\ NotFed(combatant1, tickLog.t1, tickLog.l1)
            /\ tickLog.food2 = tickLog.food
    /\ IF tickLog.h2 = tickLog.food2
       THEN Fed(combatant2, tickLog.t2, tickLog.l2) /\ nourishment \in Cells
       ELSE /\ NotFed(combatant2, tickLog.t2, tickLog.l2)
            /\ nourishment = tickLog.food2

\* both heads were on the food cell: combatant1 ate, the new food came
\* up elsewhere and combatant2 got nothing
C12_Witness ==
  /\ tickLog.ran /\ ~tickLog.ended
  /\ tickLog.food = tickLog.h1
  /\ tickLog.h2 = tickLog.h1
  /\ tickLog.food2 # tickLog.food
  /\ combatant1.tally = 5 /\ Len(combatant1.segments) = 2
  /\ combatant2.tally = 0 /\ Len(combatant2.segments) = 1
  /\ nourishment = tickLog.food2

\* how many of the orbs lie on the cell
OrbsOn(orbs, cell) == Cardinality({i \in 1 .. Len(orbs) : orbs[i] = cell})

\* the orbs that lie under neither head, in their order
OrbsLeft(orbs, h1, h2) == SelectSeq(orbs, LAMBDA c : c # h1 /\ c # h2)

\* vitality v after n orbs: each adds 30, up to 100
Boosted(v, n) == IF n = 0 THEN v ELSE IF v + 30 * n > 100 THEN 100 ELSE v + 30 * n

\* C13: in the orb step of a tick every orb under a head is removed from
\* restorativeOrbs and the vitality of the reptile that takes it becomes
\* min(vitality + 30, 100) (80 -> 100, 50 -> 80); an orb under both heads
\* is taken by combatant1 and leaves the vitality of combatant2 alone.
C13_OrbConsumption ==
  /\ Restore([NewCombatant1 EXCEPT !.vitality = 80]).vitality = 100
  /\ Restore([NewCombatant1 EXCEPT !.vitality = 50]).vitality = 80
  /\ tickLog.ran =>
       \E h1 \in {combatant1.segments[1]} :
       \E h2 \in {combatant2.segments[1]} :
         /\ restorativeOrbs = OrbsLeft(tickLog.orbs, h1, h2)
         /\ tickLog.eaten1 = OrbsOn(tickLog.orbs, h1)
         /\ tickLog.eaten2 = (IF h2 = h1 THEN 0 ELSE OrbsOn(tickLog.orbs, h2))
         /\ combatant1.vitality =
              Boosted(tickLog.v1, tickLog.eaten1) - tickLog.clash1
         /\ combatant2.vitality =
              Boosted(tickLog.v2, tickLog.eaten2) - tickLog.clash2

\* an orb lay under both heads: combatant1 took it (95 -> 100, then 5 off
\* for the clash) and combatant2 got nothing (95, then 5 off)
C13_Witness ==
  /\ combatant1.segments[1] = combatant2.segments[1]
  /\ tickLog.orbs = <<combatant1.segments[1]>>
  /\ restorativeOrbs = <<>>
  /\ tickLog.eaten1 = 1 /\ tickLog.eaten2 = 0
  /\ tickLog.v1 = 95 /\ combatant1.vitality = 95
  /\ tickLog.v2 = 95 /\ combatant2.vitality = 90

\* C14: a tick adds at most one orb; it adds one exactly when the time
\* since lastOrbRegen is at least the respawn time of 20 s, and then sets
\* lastOrbRegen to the current time, so that two orbs are never made less
\* than 20 s apart and a long time without a tick gives one orb, not more.
\* (A tick that starts the next battle clears the orbs and sets
\* lastOrbRegen to the current time as well.)
C14_OrbRegeneration ==
  /\ lastOrbRegen <= clock
  /\ tickLog.ran =>
       IF tickLog.more
       THEN tickLog.orbs = <<>> /\ lastOrbRegen = tickLog.now
       ELSE IF tickLog.now - tickLog.regen0 >= 20
       THEN /\ Len(tickLog.orbs) = Len(tickLog.orbs0) + 1
            /\ SubSeq(tickLog.orbs, 1, Len(tickLog.orbs0)) = tickLog.orbs0
            /\ tickLog.orbs[Len(tickLog.orbs)] \in Cells
            /\ lastOrbRegen = tickLog.now
       ELSE /\ tickLog.orbs = tickLog.orbs0
            /\ lastOrbRegen = tickLog.regen0

\* 40 s had passed since the last orb when the tick ran, and it made one
\* orb, not two
C14_Witness ==
  /\ tickLog.ran /\ ~tickLog.more
  /\ tickLog.now = 40
  /\ tickLog.regen0 = 0
  /\ tickLog.orbs0 = <<>>
  /\ Len(tickLog.orbs) = 1
  /\ lastOrbRegen = 40

\* a click on the replay button of the battle-over screen
ReplayStep == Phase = "SESSION_OVER" /\ "replay" \in controls /\ Click("replay")

\* C15: the phase changes only along the transitions of the match:
\* CONFIGURING_ROUNDS is entered only from MENU (by the initiate button) or
\* from SESSION_OVER by the replay button, never from IN_BATTLE, and
\* IN_BATTLE is left only to PAUSED, to SESSION_OVER or by quitting.
C15_PhaseTransitions ==
  [][/\ (Phase' = "CONFIGURING_ROUNDS" /\ Phase # "CONFIGURING_ROUNDS") =>
          \/ Phase = "MENU" /\ Click("initiate")
          \/ ReplayStep
     /\ (Phase = "IN_BATTLE" /\ Phase' # "IN_BATTLE") =>
          Phase' \in {"PAUSED", "SESSION_OVER", "TERMINAL"}]_vars

\* the cells a reptile lies on
BodyCells(r) == {r.segments[i] : i \in 1 .. Len(r.segments)}

\* C16: in the clash checks of a tick combatant1 loses 5 exactly when its
\* head is on a cell of combatant2 (head included), and combatant2 loses 5
\* exactly when its head is on a cell of combatant1; the checks do not
\* depend on each other, so two heads on one cell cost both reptiles 5.
C16_ClashPenalty ==
  tickLog.ran =>
    /\ tickLog.clash1 =
         (IF combatant1.segments[1] \in BodyCells(combatant2) THEN 5 ELSE 0)
    /\ tickLog.clash2 =
         (IF combatant2.segments[1] \in BodyCells(combatant1) THEN 5 ELSE 0)
    /\ combatant1.segments[1] = combatant2.segments[1] =>
         tickLog.clash1 = 5 /\ tickLog.clash2 = 5

\* combatant1 ran into combatant2 behind its head: it lost 5, combatant2
\* nothing
C16_Witness ==
  /\ combatant1.segments[1] # combatant2.segments[1]
  /\ combatant1.segments[1] \in BodyCells(combatant2)
  /\ tickLog.clash1 = 5 /\ tickLog.clash2 = 0
  /\ tickLog.eaten1 = 0
  /\ combatant1.vitality = tickLog.v1 - 5

\* the two heads met on one cell and both reptiles lost 5
C16_HeadOn ==
  /\ combatant1.segments[1] = combatant2.segments[1]
  /\ tickLog.clash1 = 5 /\ tickLog.clash2 = 5
  /\ tickLog.eaten1 = 0 /\ tickLog.eaten2 = 0
  /\ combatant1.vitality = tickLog.v1 - 5
  /\ combatant2.vitality = tickLog.v2 - 5

\* C17: a tick whose edge checks leave both reptiles with a vitality of 0
\* or less runs the battle-end sequence once: each score list gets one
\* entry, and either currentBattle goes up by one and the match goes on or
\* currentBattle stays and the session is over.
C17_BothDownEndsOnce ==
  (tickLog.ran /\ tickLog.mv1 <= 0 /\ tickLog.mv2 <= 0) =>
    /\ tickLog.ended
    /\ Len(battleScores.c1) = tickLog.hist0[1] + 1
    /\ Len(battleScores.c2) = tickLog.hist0[2] + 1
    /\ \/ tickLog.more /\ currentBattle = tickLog.battle0 + 1 /\ ~isOver
       \/ ~tickLog.more /\ currentBattle = tickLog.battle0 /\ isOver

\* both reptiles went down in one tick of battle 1 of 2: one entry in each
\* score list, battle 2 has begun
C17_Witness ==
  /\ tickLog.ran
  /\ tickLog.mv1 <= 0 /\ tickLog.mv2 <= 0
  /\ tickLog.battle0 = 1 /\ currentBattle = 2
  /\ Len(battleScores.c1) = 1 /\ Len(battleScores.c2) = 1
  /\ ~isOver

\* both reptiles went down in the tick that ended the session
C17_LastBattle ==
  /\ tickLog.ran
  /\ tickLog.mv1 <= 0 /\ tickLog.mv2 <= 0
  /\ isOver
  /\ currentBattle = tickLog.battle0
  /\ Len(battleScores.c1) = tickLog.hist0[1] + 1

\* some bodies on the cells (0,0) and (1,0): one segment, two apart, three
\* with the head met again by the last, three with the head met by none
SampleBodies ==
  LET a == [x |-> 0, y |-> 0]
      b == [x |-> 1, y |-> 0]
  IN  {[NewCombatant1 EXCEPT !.segments = s] :
         s \in {<<a>>, <<a, b>>, <<a, b, a>>, <<a, b, b>>}}

\* the cells of r behind its head
RestCells(r) == {Tail(r.segments)[i] : i \in 1 .. Len(r.segments) - 1}

\* detect_self_impact is true for body r exactly when a cell behind the
\* head is the head cell, and after expand exactly when that holds or the
\* last cell is the head cell
SelfImpactRule(r) ==
  /\ detect_self_impact(r) <=> r.segments[1] \in RestCells(r)
  /\ detect_self_impact(expand(r)) <=>
       r.segments[1] \in RestCells(r) \cup {r.segments[Len(r.segments)]}
  /\ Len(r.segments) = 1 =>
       ~detect_self_impact(r) /\ detect_self_impact(expand(r))

SelfImpactOnSamples == \A r \in SampleBodies : SelfImpactRule(r)

\* C18: for every body detect_self_impact is true exactly when the head
\* cell is also the cell of a segment behind the head; it is false for a
\* body of one segment and true for a body of one segment after expand.
C18_SelfImpact ==
  /\ SelfImpactOnSamples
  /\ SelfImpactRule(combatant1)
  /\ SelfImpactRule(combatant2)

\* combatant1 has just eaten as a body of one segment: expand has put a
\* second segment on the head cell and detect_self_impact is true, while
\* combatant2, of one segment, has no self-impact
C18_Witness ==
  /\ tickLog.ran
  /\ tickLog.l1 = 1
  /\ Len(combatant1.segments) = 2
  /\ combatant1.segments[2] = combatant1.segments[1]
  /\ detect_self_impact(combatant1)
  /\ Len(combatant2.segments) = 1
  /\ ~detect_self_impact(combatant2)

\* C19: both score lists always have the same length, which is
\* currentBattle - 1 while IN_BATTLE and totalRounds in SESSION_OVER: one
\* entry per creature for each battle that has ended, and none after the
\* session is over.
C19_ScoreHistoryLength ==
  /\ [](/\ Len(battleScores.c1) = Len(battleScores.c2)
        /\ Phase = "IN_BATTLE" => Len(battleScores.c1) = currentBattle - 1
        /\ Phase = "SESSION_OVER" => Len(battleScores.c1) = totalRounds)
  /\ [][(Phase = "SESSION_OVER" /\ Phase' = "SESSION_OVER") =>
          battleScores' = battleScores]_vars

\* C20: whenever the phase is IN_BATTLE, currentBattle is at least 1 and at
\* most totalRounds; currentBattle changes only by + 1, in a tick that ends
\* a battle, or by a reset to 1.
C20_BattleIndexInRange ==
  /\ [](Phase = "IN_BATTLE" =>
          (1 <= currentBattle /\ currentBattle <= totalRounds))
  /\ [][currentBattle' # currentBattle =>
          \/ currentBattle' = currentBattle + 1 /\ tickLog'.ended
          \/ currentBattle' = 1]_vars

\* C21: at the end of every tick, and in every other state, the tally of
\* each reptile is 5 * (number of segments - 1): the food step adds 5 and
\* one segment together, and a new battle sets tally 0 and one segment.
C21_TallyMatchesLength ==
  /\ combatant1.tally = 5 * (Len(combatant1.segments) - 1)
  /\ combatant2.tally = 5 * (Len(combatant2.segments) - 1)
  /\ tickLog.ran =>
       /\ tickLog.t1 = 5 * (tickLog.l1 - 1)
       /\ tickLog.t2 = 5 * (tickLog.l2 - 1)

\* in battle 2 combatant1 has eaten twice (tally 10, three segments) after
\* the new battle had set it to tally 0 and one segment
C21_Witness ==
  /\ tickLog.ran
  /\ currentBattle = 2
  /\ combatant1.tally = 10 /\ Len(combatant1.segments) = 3
  /\ combatant2.tally = 0 /\ Len(combatant2.segments) = 1

\* a key event has left vitality, tally and body of both reptiles, the food
\* and the orbs as they were
ArenaKept ==
  /\ combatant1'.vitality = combatant1.vitality
  /\ combatant2'.vitality = combatant2.vitality
  /\ combatant1'.tally = combatant1.tally
  /\ combatant2'.tally = combatant2.tally
  /\ combatant1'.segments = combatant1.segments
  /\ combatant2'.segments = combatant2.segments
  /\ nourishment' = nourishment
  /\ restorativeOrbs' = restorativeOrbs

\* C22: a direction key changes a direction only in IN_BATTLE and leaves
\* both reptiles as they are in every other phase; a digit or the backspace
\* key changes the text typed, and nothing else, only in
\* CONFIGURING_ROUNDS; no key changes vitality, tally, body, food or orbs.
C22_InputPhaseScoped ==
  [][\A key \in Keys :
       KeyPress(key) =>
         /\ ArenaKept
         /\ (key \in Keys1 \cup Keys2 /\ Phase # "IN_BATTLE") =>
              combatant1' = combatant1 /\ combatant2' = combatant2
         /\ key \in Keys1 \cup Keys2 => enteredText' = enteredText
         /\ key \in DigitKeys \cup {"BACKSPACE"} =>
              /\ combatant1' = combatant1 /\ combatant2' = combatant2
              /\ enteredText' # enteredText => Phase = "CONFIGURING_ROUNDS"]_vars

\* the last entry of a score list
LastOf(q) == q[Len(q)]

\* the last tick ended a battle in which neither reptile had eaten
EndedUnfed ==
  /\ tickLog.ran /\ tickLog.ended
  /\ LastOf(battleScores.c1) = 0 /\ LastOf(battleScores.c2) = 0

\* the last tick ended a battle with both vitalities at 0 or below
BothDown == tickLog.mv1 <= 0 /\ tickLog.mv2 <= 0

\* C23 as stated: with no key pressed after the confirm, no orb taken and
\* frame after frame run, every battle ends with both vitalities at 0 or
\* below in the same tick and the session reaches SESSION_OVER.
C23_AutoSessionEnds ==
  /\ <>(Phase = "SESSION_OVER")
  /\ []((tickLog.ran /\ tickLog.ended) => BothDown)

\* C23 as amended: with no key pressed after the confirm, no orb taken and
\* frame after frame run, the session reaches SESSION_OVER after as many
\* battle ends as rounds; a battle in which no reptile has eaten ends with
\* both vitalities at 0 or below in the same tick.
C23_AutoSessionEndsUnfedTogether ==
  /\ <>(Phase = "SESSION_OVER" /\ Len(battleScores.c1) = totalRounds)
  /\ [](EndedUnfed => BothDown)
  /\ [](restorativeOrbs = <<>>)
  /\ [](combatant1.move_direction = MOVE_RIGHT
        /\ combatant2.move_direction = MOVE_LEFT)

\* a session of two rounds is over; in its last battle no reptile had eaten
\* and both went down in the same tick
C23_Witness ==
  /\ Phase = "SESSION_OVER"
  /\ totalRounds = 2
  /\ Len(battleScores.c1) = 2
  /\ EndedUnfed
  /\ BothDown

====
